---- MODULE Spec2Model ----
(***************************************************************************)
(* Model of uloop/uloop_check.py: the differential driver of the uLoop     *)
(* address generator.  uloop_check() steps the microcode executor and the  *)
(* uLoop state machine one cycle at a time, commits the executor's         *)
(* candidate registers when the state machine says so, and compares the    *)
(* committed accumulators with the high-level reference loop at every      *)
(* non-busy cycle.  The module body sweeps a fixed matrix of               *)
(* configurations and re-runs the first failing one verbosely.             *)
(*                                                                         *)
(* uloop_common (uloop_load, uloop_get_loops, uloop_execute,               *)
(* uloop_state_machine, uloop_print_idx) is imported by the driver but is  *)
(* not part of the sources at hand: the executor and the state machine are *)
(* modelled from their contracts in the specification (sections 4.2, 4.3). *)
(*                                                                         *)
(* Sequences are 1-based: registers[1..4] are the accumulators a,b,c,d     *)
(* (Python registers[0:4]); registers[5..7] are nb_iter, iter_stride,      *)
(* one_stride (Python registers[4..6]).                                    *)
(***************************************************************************)
EXTENDS Integers, Sequences, FiniteSets, TLC

\* ------------------------------------------------------------------ bounds

\* The cycle budget of one run.  The driver's loop is `for i in range(0,1000)`;
\* the model keeps the loop and scales the budget so that a run that exhausts
\* it is explored in full.
CycleBudget == 4

\* uloop_check is explored directly for nb_iter in 1..MaxNbIter.
MaxNbIter == 3

\* ... and for iter_stride, one_stride in 0..MaxStride.
MaxStride == 2

\* --------------------------------------------------------------- constants

\* NB_LOOPS = 1: number of loops activated in the microcode.
NB_LOOPS == 1

\* The sweep's matrix: `for nb_iter in (16,32,64,)`, `for iter_stride in (1,16,32,)`.
SweepNbIter == <<16, 32, 64>>
SweepIterStride == <<1, 16, 32>>

\* `one_stride = 1` in the body of the sweep.
SweepOneStride == 1

\* `for i in range(0,1000)`: the cycle budget as the driver has it.
FullBudget == 1000

\* VERBOSE = True, the default of uloop_check's verbose parameter.
VERBOSE == TRUE

VARIABLES
    \* ---- module level (the sweep)
    mpc,            \* position of the module body
    it_nb,          \* position of the outer for loop in SweepNbIter
    it_stride,      \* position of the inner for loop in SweepIterStride
    m_nb_iter,      \* global nb_iter
    m_iter_stride,  \* global iter_stride
    m_one_stride,   \* global one_stride
    m_err,          \* global err
    exit_status,    \* exit status of the interpreter, -1 while it runs
    calls,          \* the calls of uloop_check made so far, in order
    results,        \* what each finished call returned, in order
    uloop_common,   \* the imported module: which state machine and executor
                    \* the driver is run against (fixed for a behaviour)
    \* ---- locals of the current call of uloop_check
    pc,             \* position inside uloop_check
    args,           \* [nb_iter, iter_stride, one_stride, verbose]
    registers,      \* the committed register file
    state,          \* the FSM state threaded through the state machine
    execute, busy, end,   \* the flags of the last state-machine step
    hl,             \* ha, hb, hc, hd and whether they are bound yet
    hidx,           \* hidx
    hl_loop,        \* the frame of the generator iterate_hl_loop(...)
    err,            \* local err
    i,              \* number of cycles issued so far (loop variable + 1)
    ret,            \* how the call ended
    summary,        \* the summary line printed at line 93
    \* ---- history
    settled,        \* number of non-busy cycles of the run so far
    mism            \* number of non-busy cycles whose accumulators differed
                    \* from the reference tuple

vars == <<mpc, it_nb, it_stride, m_nb_iter, m_iter_stride, m_one_stride, m_err,
          exit_status, calls, results, uloop_common, pc, args, registers, state, execute,
          busy, end, hl, hidx, hl_loop, err, i, ret, summary, settled, mism>>

mvars == <<mpc, it_nb, it_stride, m_nb_iter, m_iter_stride, m_one_stride,
           m_err, exit_status, calls, results, uloop_common>>

\* ------------------------------------------------- the reference generator

\* iterate_hl_loop(...) called: a generator frame that has not run yet.
\* `taken` is the number of elements of range(0, nb_iter-1) consumed so far.
iterate_hl_loop(nb_iter, iter_stride, one_stride) ==
    [nb_iter |-> nb_iter, iter_stride |-> iter_stride, one_stride |-> one_stride,
     a_idx |-> 0, b_idx |-> 0, c_idx |-> 0, d_idx |-> 0, curr_idx |-> <<0>>,
     taken |-> 0, done |-> FALSE]

\* range(0, nb_iter-1) still has an element for the generator's for loop.
GenHasNextOneShort(g) == ~g.done /\ g.taken < g.nb_iter - 2
GenHasNextOffByOne(g) == ~g.done /\ g.taken < g.nb_iter
GenHasNext(g) == ~g.done /\ g.taken < g.nb_iter - 1

\* One pass of the loop body up to the yield (lines 31-35).
GenResume(g) ==
    [g EXCEPT !.a_idx = @ + g.iter_stride,
              !.b_idx = @ + g.iter_stride,
              !.c_idx = @ + g.one_stride,
              !.d_idx = @ + g.one_stride,
              !.curr_idx = <<g.taken>>,
              !.taken = @ + 1]

\* The tuple of line 36.
GenYield(g) == <<g.a_idx, g.b_idx, g.c_idx, g.d_idx, g.curr_idx>>

\* next(hl_loop): the frame afterwards, and the tuple or StopIteration.
GenNext(g) ==
    IF GenHasNext(g)
    THEN [frame |-> GenResume(g), stop |-> FALSE, value |-> GenYield(GenResume(g))]
    ELSE [frame |-> [g EXCEPT !.done = TRUE], stop |-> TRUE, value |-> <<>>]

\* ------------------------------------------ the executor, the state machine

\* The instruction stream of the microcode asset: the loop body's stride
\* update, and an update that is not the loop body's.
Code == <<"step", "skew">>

\* state = (0,0,0,idx) with idx = [0]*NB_LOOPS.
InitState == <<0, 0, 0, [j \in 1..NB_LOOPS |-> 0]>>

\* The states the state machine can hand back: the program-counter field
\* addresses an instruction of Code.
FsmStates == {<<p, 0, 0, [j \in 1..NB_LOOPS |-> 0]>> : p \in 0..(Len(Code) - 1)}

\* uloop_execute(state, code, registers): the candidate register file, from the
\* instruction the program-counter field addresses.  It returns a new register
\* file and writes neither its argument nor positions 5..7.
\* With the corrupted asset (uloop_common.swapped) the stride update applies
\* one_stride to a,b and iter_stride to c,d.
uloop_execute(st, code, regs) ==
    LET ab == IF uloop_common.swapped THEN regs[7] ELSE regs[6]
        cd == IF uloop_common.swapped THEN regs[6] ELSE regs[7]
    IN  IF code[st[1] + 1] = "step"
        THEN [regs EXCEPT ![1] = @ + ab, ![2] = @ + ab,
                          ![3] = @ + cd, ![4] = @ + cd]
        ELSE [regs EXCEPT ![1] = @ + 1]

\* loops_range = [nb_iter]; uloop_get_loops(loops_ops, loops_range) keeps the
\* trip count of each level.
uloop_get_loops(loops_range) == loops_range

\* The state machine of the contract (specification 4.3), for one loop level.
\* The third field of the state is the pending flag, the fourth the iteration
\* index.  STALLED: one start-up cycle that commits nothing and is busy.
\* ADVANCING: one cycle per stride commit, settled, while the iteration index
\* is below the last iteration.  DONE: the terminal cycle, which commits
\* nothing, is not busy and signals end.
UloopContractSettlesStart(loops, st) ==
    IF st[3] = 0
    THEN [execute |-> FALSE, end |-> FALSE, busy |-> FALSE,
          state |-> <<st[1], st[2], 1, st[4]>>]
    ELSE IF st[4][1] < loops[1] - 1
    THEN [execute |-> TRUE, end |-> FALSE, busy |-> FALSE,
          state |-> <<st[1], st[2], st[3], [st[4] EXCEPT ![1] = @ + 1]>>]
    ELSE [execute |-> FALSE, end |-> TRUE, busy |-> FALSE, state |-> st]
UloopContract(loops, st) ==
    IF st[3] = 0
    THEN [execute |-> FALSE, end |-> FALSE, busy |-> TRUE,
          state |-> <<st[1], st[2], 1, st[4]>>]
    ELSE IF st[4][1] < loops[1] - 1
    THEN [execute |-> TRUE, end |-> FALSE, busy |-> FALSE,
          state |-> <<st[1], st[2], st[3], [st[4] EXCEPT ![1] = @ + 1]>>]
    ELSE [execute |-> FALSE, end |-> TRUE, busy |-> FALSE, state |-> st]

\* uloop_state_machine(loops, state, verbose, nb_loops): every
\* (execute, end, busy, state) it may return.  Unconstrained ("any"), it may
\* return anything; otherwise it is the state machine of the contract.
uloop_state_machine(loops, st, verbose) ==
    IF uloop_common.fsm = "any"
    THEN [execute : BOOLEAN, end : BOOLEAN, busy : BOOLEAN, state : FsmStates]
    ELSE {UloopContract(loops, st)}

\* ---------------------------------------------------------- uloop_check

\* registers = [0, 0, 0, 0, nb_iter, iter_stride, one_stride]
InitRegistersStridesSwapped(nb_iter, iter_stride, one_stride) ==
    <<0, 0, 0, 0, nb_iter, one_stride, iter_stride>>
InitRegisters(nb_iter, iter_stride, one_stride) ==
    <<0, 0, 0, 0, nb_iter, iter_stride, one_stride>>

\* `if execute: registers = new_registers`
CommitAlways(ex, new_registers, regs) == new_registers
Commit(ex, new_registers, regs) == IF ex THEN new_registers ELSE regs

\* `ha != ua or hb != ub or hc != uc or hd != ud` with ua..ud = registers[0:4]
MismatchFirstOnly(h, regs) == h[1] # regs[1]
Mismatch(h, regs) ==
    h[1] # regs[1] \/ h[2] # regs[2] \/ h[3] # regs[3] \/ h[4] # regs[4]

\* Lines 77-80: `ha, hb, hc, hd, hidx = next(hl_loop)`, and on StopIteration
\* `pass`, which leaves ha..hd as they were.
PullOrReset(h, nxt) ==
    IF nxt.stop THEN [bound |-> TRUE, v |-> <<0, 0, 0, 0>>]
    ELSE [bound |-> TRUE, v |-> SubSeq(nxt.value, 1, 4)]
PullOrKeep(h, nxt) ==
    IF nxt.stop THEN h ELSE [bound |-> TRUE, v |-> SubSeq(nxt.value, 1, 4)]

\* Line 72: the candidate is computed before the state machine steps, from
\* the state of the end of the previous cycle (st), not from the state the
\* step of line 73 returns (st2).
NewRegistersAfterStep(st, st2, regs) == uloop_execute(st2, Code, regs)
NewRegisters(st, st2, regs) == uloop_execute(st, Code, regs)

\* Line 76, `if not busy:`: the cycle pulls and compares, whatever end is (the
\* `if end: break` of lines 90-91 comes after the comparison).
ComparesUnlessEnd(bu, en) == ~bu /\ ~en
Compares(bu, en) == ~bu

\* Lines 76-78: next(hl_loop) is called in a non-busy cycle only; the
\* generator's frame after the cycle.
GenAfterAlways(bu, g) == GenNext(g).frame
GenAfter(bu, g) == IF bu THEN g ELSE GenNext(g).frame

\* `err += 1`, reached on a mismatch whatever verbose is.
CountOnlyVerbose(e, miss, verbose) == IF miss /\ verbose THEN e + 1 ELSE e
CountErr(e, miss, verbose) == IF miss THEN e + 1 ELSE e

\* The budget of `for i in range(0,1000)`: scaled where the state machine is
\* unconstrained, the driver's own 1000 where the state machine is the
\* deterministic one of the contract.
Budget == IF uloop_common.fsm = "any" THEN CycleBudget ELSE FullBudget

\* The for loop goes on after a cycle: no break, and range(0,1000) not
\* exhausted (n cycles were issued, this one included).
LoopGoesOnNoBreak(en, n) == n < Budget
LoopGoesOn(en, n) == ~en /\ n < Budget

\* What uloop_check hands back: `return err`.
Returned(e) == [kind |-> "count", value |-> e]
Raised == [kind |-> "UnboundLocalError", value |-> 0]
NoReturn == [kind |-> "none", value |-> 0]

\* `print(err, " errors", "!!!" if err > 0 else "")`
SummaryLine(e) == <<e, " errors", IF e > 0 THEN "!!!" ELSE "">>

\* Lines 42-70: the locals of uloop_check when the for loop is reached.
EnterCheckKeepsErr(nb_iter, iter_stride, one_stride, verbose) ==
    /\ pc' = "loop"
    /\ args' = [nb_iter |-> nb_iter, iter_stride |-> iter_stride,
                one_stride |-> one_stride, verbose |-> verbose]
    /\ registers' = InitRegisters(nb_iter, iter_stride, one_stride)
    /\ state' = InitState
    /\ execute' = TRUE
    /\ busy' = FALSE
    /\ end' = FALSE
    /\ hl' = [bound |-> FALSE, v |-> <<0, 0, 0, 0>>]
    /\ hidx' = <<0, 0, 0, 0, 0, 0>>
    /\ hl_loop' = iterate_hl_loop(nb_iter, iter_stride, one_stride)
    /\ err' = err
    /\ i' = 0
    /\ ret' = NoReturn
    /\ summary' = <<>>
    /\ settled' = 0
    /\ mism' = 0
EnterCheck(nb_iter, iter_stride, one_stride, verbose) ==
    /\ pc' = "loop"
    /\ args' = [nb_iter |-> nb_iter, iter_stride |-> iter_stride,
                one_stride |-> one_stride, verbose |-> verbose]
    /\ registers' = InitRegisters(nb_iter, iter_stride, one_stride)
    /\ state' = InitState
    /\ execute' = TRUE
    /\ busy' = FALSE
    /\ end' = FALSE
    /\ hl' = [bound |-> FALSE, v |-> <<0, 0, 0, 0>>]
    /\ hidx' = <<0, 0, 0, 0, 0, 0>>
    /\ hl_loop' = iterate_hl_loop(nb_iter, iter_stride, one_stride)
    /\ err' = 0
    /\ i' = 0
    /\ ret' = NoReturn
    /\ summary' = <<>>
    /\ settled' = 0
    /\ mism' = 0

\* One pass of the body of `for i in range(0,1000)` (lines 72-91), with the
\* loop's own decision to go on or to leave.
Cycle ==
    /\ pc = "loop"
    /\ \E out \in uloop_state_machine(uloop_get_loops(<<args.nb_iter>>), state,
                                       args.verbose) :
        LET new_registers == NewRegisters(state, out.state, registers)
            regs2 == Commit(out.execute, new_registers, registers)
            nxt == GenNext(hl_loop)
            hl2 == IF out.busy THEN hl ELSE PullOrKeep(hl, nxt)
            unbound == ~out.busy /\ ~hl2.bound
            miss == Compares(out.busy, out.end) /\ hl2.bound /\ Mismatch(hl2.v, regs2)
        IN  /\ registers' = regs2
            /\ state' = out.state
            /\ execute' = out.execute
            /\ busy' = out.busy
            /\ end' = out.end
            /\ i' = i + 1
            /\ hl_loop' = GenAfter(out.busy, hl_loop)
            /\ hl' = hl2
            /\ hidx' = IF out.busy \/ nxt.stop THEN hidx ELSE nxt.value[5]
            /\ settled' = IF out.busy THEN settled ELSE settled + 1
            /\ IF unbound
               THEN \* line 84 reads ha, which was never assigned
                    /\ pc' = "raised"
                    /\ ret' = Raised
                    /\ err' = err
                    /\ mism' = mism
               ELSE /\ err' = CountErr(err, miss, args.verbose)
                    /\ mism' = IF ~out.busy /\ SubSeq(regs2, 1, 4) # hl2.v
                               THEN mism + 1 ELSE mism
                    /\ pc' = IF LoopGoesOn(out.end, i + 1) THEN "loop" ELSE "summary"
                    /\ ret' = ret
    /\ UNCHANGED <<args, summary>>
    /\ UNCHANGED mvars

\* Lines 93-94: print the summary, return err.
Finish ==
    /\ pc = "summary"
    /\ summary' = SummaryLine(err)
    /\ ret' = Returned(err)
    /\ pc' = "returned"
    /\ UNCHANGED <<args, registers, state, execute, busy, end, hl, hidx,
                   hl_loop, err, i, settled, mism>>
    /\ UNCHANGED mvars

\* ------------------------------------------------------ the module's sweep

\* `if err>0: break` (lines 100-103): the sweep stops at this result.
SweepBreaksNever(e) == FALSE
SweepBreaks(e) == e > 0

\* `if err>0:` of line 104: the diagnostic re-run is made.
RerunWanted(e) == e > 0

\* The configuration the diagnostic re-run is called with (line 105): the
\* globals as the broken loops left them.
RerunArgsFirstConfig ==
    [nb_iter |-> SweepNbIter[1], iter_stride |-> SweepIterStride[1],
     one_stride |-> m_one_stride, verbose |-> TRUE]
RerunArgs ==
    [nb_iter |-> m_nb_iter, iter_stride |-> m_iter_stride,
     one_stride |-> m_one_stride, verbose |-> TRUE]

\* The interpreter's exit status: 0 when the module body runs to its end (the
\* script never calls sys.exit), 1 when an exception leaves it.
ExitStatus(r) == IF r.kind = "count" THEN 0 ELSE 1

\* Lines 96-99: the for loops bind nb_iter and iter_stride, one_stride = 1, and
\* uloop_check is called with verbose=False.
SweepCall ==
    /\ mpc = "sweep"
    /\ m_nb_iter' = SweepNbIter[it_nb]
    /\ m_iter_stride' = SweepIterStride[it_stride]
    /\ m_one_stride' = SweepOneStride
    /\ EnterCheck(SweepNbIter[it_nb], SweepIterStride[it_stride], SweepOneStride, FALSE)
    /\ calls' = Append(calls, [nb_iter |-> SweepNbIter[it_nb],
                               iter_stride |-> SweepIterStride[it_stride],
                               one_stride |-> SweepOneStride, verbose |-> FALSE])
    /\ mpc' = "in_sweep_call"
    /\ UNCHANGED <<it_nb, it_stride, m_err, exit_status, results, uloop_common>>

\* Lines 99-104: err is bound to the result; the loops break on err>0 or step
\* to the next configuration; after the loops, line 104 decides on the re-run.
SweepReturn ==
    /\ mpc = "in_sweep_call"
    /\ pc \in {"returned", "raised"}
    /\ results' = Append(results, ret)
    /\ IF ret.kind # "count"
       THEN \* the exception leaves the module
            /\ mpc' = "exit"
            /\ exit_status' = ExitStatus(ret)
            /\ UNCHANGED <<it_nb, it_stride, m_err>>
       ELSE /\ m_err' = ret.value
            /\ IF SweepBreaks(ret.value)
               THEN /\ UNCHANGED <<it_nb, it_stride>>
                    /\ mpc' = IF RerunWanted(ret.value) THEN "rerun" ELSE "exit"
                    /\ exit_status' = IF RerunWanted(ret.value) THEN exit_status
                                      ELSE ExitStatus(ret)
               ELSE IF it_stride < Len(SweepIterStride)
               THEN /\ it_stride' = it_stride + 1
                    /\ it_nb' = it_nb
                    /\ mpc' = "sweep"
                    /\ exit_status' = exit_status
               ELSE IF it_nb < Len(SweepNbIter)
               THEN /\ it_stride' = 1
                    /\ it_nb' = it_nb + 1
                    /\ mpc' = "sweep"
                    /\ exit_status' = exit_status
               ELSE /\ UNCHANGED <<it_nb, it_stride>>
                    /\ mpc' = IF RerunWanted(ret.value) THEN "rerun" ELSE "exit"
                    /\ exit_status' = IF RerunWanted(ret.value) THEN exit_status
                                      ELSE ExitStatus(ret)
    /\ UNCHANGED <<m_nb_iter, m_iter_stride, m_one_stride, calls, uloop_common>>
    /\ UNCHANGED <<pc, args, registers, state, execute, busy, end, hl, hidx,
                   hl_loop, err, i, ret, summary, settled, mism>>

\* Line 105, the call: uloop_check(nb_iter, iter_stride, one_stride, verbose=True).
RerunCall ==
    /\ mpc = "rerun"
    /\ EnterCheck(RerunArgs.nb_iter, RerunArgs.iter_stride, RerunArgs.one_stride,
                  RerunArgs.verbose)
    /\ calls' = Append(calls, RerunArgs)
    /\ mpc' = "in_rerun_call"
    /\ UNCHANGED <<it_nb, it_stride, m_nb_iter, m_iter_stride, m_one_stride,
                   m_err, exit_status, results, uloop_common>>

\* Line 105, the assignment: err is bound to the re-run's result and the module
\* body ends.
RerunReturn ==
    /\ mpc = "in_rerun_call"
    /\ pc \in {"returned", "raised"}
    /\ results' = Append(results, ret)
    /\ m_err' = IF ret.kind = "count" THEN ret.value ELSE m_err
    /\ mpc' = "exit"
    /\ exit_status' = ExitStatus(ret)
    /\ UNCHANGED <<it_nb, it_stride, m_nb_iter, m_iter_stride, m_one_stride, calls,
                   uloop_common>>
    /\ UNCHANGED <<pc, args, registers, state, execute, busy, end, hl, hidx,
                   hl_loop, err, i, ret, summary, settled, mism>>

\* --------------------------------------------------------- specifications

\* The locals of uloop_check before any call.
NoCall ==
    /\ pc = "none"
    /\ args = [nb_iter |-> 0, iter_stride |-> 0, one_stride |-> 0, verbose |-> FALSE]
    /\ registers = InitRegisters(0, 0, 0)
    /\ state = InitState
    /\ execute = TRUE
    /\ busy = FALSE
    /\ end = FALSE
    /\ hl = [bound |-> FALSE, v |-> <<0, 0, 0, 0>>]
    /\ hidx = <<0, 0, 0, 0, 0, 0>>
    /\ hl_loop = iterate_hl_loop(0, 0, 0)
    /\ err = 0
    /\ i = 0
    /\ ret = NoReturn
    /\ summary = <<>>
    /\ settled = 0
    /\ mism = 0

\* The imported module left unconstrained, with the asset as shipped.
AnyCommon == [fsm |-> "any", swapped |-> FALSE]

\* The imported module as the contract describes it, with the asset as
\* shipped or with its stride application swapped.
ContractCommon == {[fsm |-> "contract", swapped |-> sw] : sw \in BOOLEAN}

\* The module body about to run from its first line.
SweepStart ==
    /\ mpc = "sweep"
    /\ it_nb = 1
    /\ it_stride = 1
    /\ m_nb_iter = 0
    /\ m_iter_stride = 0
    /\ m_one_stride = 0
    /\ m_err = 0
    /\ exit_status = -1
    /\ calls = <<>>
    /\ results = <<>>
    /\ NoCall

\* The program, against an unconstrained state machine.
Init == SweepStart /\ uloop_common = AnyCommon

Next == SweepCall \/ Cycle \/ Finish \/ SweepReturn \/ RerunCall \/ RerunReturn

Spec == Init /\ [][Next]_vars

\* One call of uloop_check with any configuration of the bounded sets, the for
\* loop about to start.
RunStart(nb, is, os, vb) ==
        /\ mpc = "direct_call"
        /\ it_nb = 1
        /\ it_stride = 1
        /\ m_nb_iter = 0
        /\ m_iter_stride = 0
        /\ m_one_stride = 0
        /\ m_err = 0
        /\ exit_status = -1
        /\ calls = <<[nb_iter |-> nb, iter_stride |-> is, one_stride |-> os,
                      verbose |-> vb]>>
        /\ results = <<>>
        /\ pc = "loop"
        /\ args = [nb_iter |-> nb, iter_stride |-> is, one_stride |-> os,
                   verbose |-> vb]
        /\ registers = InitRegisters(nb, is, os)
        /\ state = InitState
        /\ execute = TRUE
        /\ busy = FALSE
        /\ end = FALSE
        /\ hl = [bound |-> FALSE, v |-> <<0, 0, 0, 0>>]
        /\ hidx = <<0, 0, 0, 0, 0, 0>>
        /\ hl_loop = iterate_hl_loop(nb, is, os)
        /\ err = 0
        /\ i = 0
        /\ ret = NoReturn
        /\ summary = <<>>
        /\ settled = 0
        /\ mism = 0

InitRun ==
    \E nb \in 1..MaxNbIter, is \in 0..MaxStride, os \in 0..MaxStride, vb \in BOOLEAN :
        RunStart(nb, is, os, vb) /\ uloop_common = AnyCommon

NextRun == Cycle \/ Finish

SpecRun == InitRun /\ [][NextRun]_vars

\* The reference generator on its own: next(hl_loop) is called again and again
\* on a fresh generator of any configuration of the bounded sets; `settled`
\* counts the calls.
InitGen ==
    \E nb \in 1..MaxNbIter, is \in 0..MaxStride, os \in 0..MaxStride :
        /\ uloop_common = AnyCommon
        /\ mpc = "generator"
        /\ it_nb = 1
        /\ it_stride = 1
        /\ m_nb_iter = 0
        /\ m_iter_stride = 0
        /\ m_one_stride = 0
        /\ m_err = 0
        /\ exit_status = -1
        /\ calls = <<>>
        /\ results = <<>>
        /\ pc = "next"
        /\ args = [nb_iter |-> nb, iter_stride |-> is, one_stride |-> os,
                   verbose |-> FALSE]
        /\ registers = InitRegisters(nb, is, os)
        /\ state = InitState
        /\ execute = TRUE
        /\ busy = FALSE
        /\ end = FALSE
        /\ hl = [bound |-> FALSE, v |-> <<0, 0, 0, 0>>]
        /\ hidx = <<0, 0, 0, 0, 0, 0>>
        /\ hl_loop = iterate_hl_loop(nb, is, os)
        /\ err = 0
        /\ i = 0
        /\ ret = NoReturn
        /\ summary = <<>>
        /\ settled = 0
        /\ mism = 0

\* `ha, hb, hc, hd, hidx = next(hl_loop)` with StopIteration passed over.
Pull ==
    /\ pc = "next"
    /\ settled < MaxNbIter + 2
    /\ LET nxt == GenNext(hl_loop)
       IN  /\ hl_loop' = nxt.frame
           /\ hl' = PullOrKeep(hl, nxt)
           /\ hidx' = IF nxt.stop THEN hidx ELSE nxt.value[5]
    /\ settled' = settled + 1
    /\ UNCHANGED <<pc, args, registers, state, execute, busy, end, err, i, ret,
                   summary, mism>>
    /\ UNCHANGED mvars

NextGen == Pull

SpecGen == InitGen /\ [][NextGen]_vars

\* The program against the state machine of the contract, with the asset as
\* shipped or corrupted.
InitFsm == SweepStart /\ uloop_common \in ContractCommon

SpecFsm == InitFsm /\ [][Next]_vars

\* One call of uloop_check with any configuration of the bounded sets, against
\* the state machine of the contract.
InitRunFsm ==
    \E nb \in 1..MaxNbIter, is \in 0..MaxStride, os \in 0..MaxStride, vb \in BOOLEAN :
        RunStart(nb, is, os, vb) /\ uloop_common \in ContractCommon

SpecRunFsm == InitRunFsm /\ [][NextRun]_vars

\* ----------------------------------------------------------------- claims

\* A step of Cycle: the only step that adds one to the cycle count.
CycleStep == i' = i + 1

\* The run of uloop_check is over, whichever way it ended.
RunOver == pc \in {"summary", "returned", "raised"}

\* k iterations of the high-level loop, in closed form.
Closed(k, iter_stride, one_stride) ==
    <<k * iter_stride, k * iter_stride, k * one_stride, k * one_stride>>

\* C1: in every cycle the register file afterwards is the executor's candidate
\* (computed from the state and registers before the cycle) when the state
\* machine returned execute=true, and is the register file of before the cycle
\* when it returned execute=false.
C1_CommitOnlyOnExecute ==
    [][CycleStep =>
        registers' = IF execute' THEN uloop_execute(state, Code, registers)
                     ELSE registers]_vars

\* C1 witness: a candidate was committed in the first cycle and the second
\* cycle's candidate, which differs from the registers whatever the instruction,
\* was discarded.
C1_Witness ==
    /\ i = 2
    /\ ~execute
    /\ registers[1] = 1
    /\ \A st \in FsmStates : uloop_execute(st, Code, registers) # registers

\* C2: the error count is, at every point of a run and in the value returned,
\* the number of non-busy cycles whose committed accumulators differed from the
\* reference tuple, for verbose=True and verbose=False alike.
C2_ErrCountsEveryMismatch ==
    /\ err = mism
    /\ pc = "returned" => ret = [kind |-> "count", value |-> mism]

\* C2 witness: a non-verbose run returned two errors out of three settle points.
C2_Witness ==
    /\ pc = "returned"
    /\ ~args.verbose
    /\ ret.value = 2
    /\ settled = 3

\* C3: no cycle is issued after a cycle in which the state machine returned
\* end=true, so end is true for the last processed cycle at most.
C3_NoCycleAfterEnd ==
    /\ [](end => RunOver)
    /\ [][CycleStep => ~end]_vars

\* C3 witness: a run stopped on end=true with budget left.
C3_Witness ==
    /\ pc = "returned"
    /\ end
    /\ i = 2

\* C4: a run that used up the cycle budget without end=true ends in an outcome
\* no run that reached end=true can end in: it is not a plain error count.
C4_BudgetExceededFlagged ==
    (pc = "returned" /\ ~end) =>
        \A e \in 0..CycleBudget :
            <<ret, summary>> # <<[kind |-> "count", value |-> e],
                                 <<e, " errors", IF e > 0 THEN "!!!" ELSE "">> >>

\* The nine configurations of the sweep in the order the claim gives.
ExpectedOrder ==
    << <<16, 1>>, <<16, 16>>, <<16, 32>>,
       <<32, 1>>, <<32, 16>>, <<32, 32>>,
       <<64, 1>>, <<64, 16>>, <<64, 32>> >>

ExpectedCall(k, verbose) ==
    [nb_iter |-> ExpectedOrder[k][1], iter_stride |-> ExpectedOrder[k][2],
     one_stride |-> 1, verbose |-> verbose]

\* The finished calls that returned a nonzero error count.
Failed == {k \in 1..Len(results) : results[k].kind = "count" /\ results[k].value > 0}

FirstFailed == CHOOSE k \in Failed : \A j \in Failed : k <= j

\* C5: the calls are the nine configurations in order, non-verbose, up to the
\* first one that returns a nonzero count; the only call after that one is one
\* verbose call of the same configuration; when none fails all nine are run and
\* nothing is re-executed.
C5_SweepOrderAndRerun ==
    /\ \A k \in 1..Len(calls) :
          IF \E j \in Failed : j < k
          THEN k = FirstFailed + 1 /\ calls[k] = ExpectedCall(FirstFailed, TRUE)
          ELSE k <= 9 /\ calls[k] = ExpectedCall(k, FALSE)
    /\ mpc = "exit" =>
          /\ Len(results) = Len(calls)
          /\ IF Failed = {} THEN Len(calls) = 9
             ELSE Len(calls) = FirstFailed + 1

\* C5 witness: the fourth configuration failed and was re-run verbosely.
C5_Witness ==
    /\ mpc = "exit"
    /\ Len(calls) = 5
    /\ results[4].value > 0
    /\ calls[5] = [nb_iter |-> 32, iter_stride |-> 1, one_stride |-> 1,
                   verbose |-> TRUE]

\* C6: a run with nb_iter=1 completes normally and returns zero errors.
C6_NbIterOneReturnsZero ==
    (args.nb_iter = 1 /\ pc \in {"returned", "raised"}) =>
        ret = [kind |-> "count", value |-> 0]

\* C7: after n calls of next() the generator has yielded min(n, nb_iter-1)
\* tuples, the k-th being (k*iter_stride, k*iter_stride, k*one_stride,
\* k*one_stride) for k = 1..nb_iter-1, and it is exhausted from call nb_iter
\* on; the all-zero iteration 0 is not among the tuples.
C7_GeneratorClosedForm ==
    pc = "next" =>
        /\ settled <= args.nb_iter - 1 =>
              /\ ~hl_loop.done
              /\ hl.bound = (settled >= 1)
              /\ settled >= 1 =>
                    hl.v = Closed(settled, args.iter_stride, args.one_stride)
        /\ settled > args.nb_iter - 1 =>
              /\ hl_loop.done
              /\ hl.bound = (args.nb_iter >= 2)
              /\ hl.bound =>
                    hl.v = Closed(args.nb_iter - 1, args.iter_stride, args.one_stride)

\* C7 witness: the generator of nb_iter=3 with strides 2 and 1 yielded its
\* second and last tuple (4,4,2,2) and was then found exhausted.
C7_Witness ==
    /\ pc = "next"
    /\ args = [nb_iter |-> 3, iter_stride |-> 2, one_stride |-> 1, verbose |-> FALSE]
    /\ settled = 3
    /\ hl_loop.done
    /\ hl.v = <<4, 4, 2, 2>>

\* The generator has no tuple left, and it has yielded at least one.
ExhaustedAfterYield == hl.bound /\ hl_loop.taken >= args.nb_iter - 1

\* C8: once the generator is exhausted after yielding at least one tuple, every
\* further cycle keeps the last tuple pulled, does not fail, and a non-busy
\* cycle counts an error exactly when the committed accumulators differ from
\* that kept tuple.
C8_ExhaustedKeepsLastTuple ==
    [][(CycleStep /\ ExhaustedAfterYield) =>
          /\ hl' = hl
          /\ pc' # "raised"
          /\ ~busy' =>
                err' = IF SubSeq(registers', 1, 4) # hl.v THEN err + 1 ELSE err]_vars

\* C8 witness: two settle points after exhaustion, one error counted there, and
\* the run went on.
C8_Witness ==
    /\ args.nb_iter = 2
    /\ hl_loop.done
    /\ settled = 3
    /\ registers[1] = args.iter_stride /\ registers[3] = args.one_stride
    /\ err = 1
    /\ pc = "loop"

\* C9: a run issues at most the budget of cycles and, when it stops, it stops
\* at a cycle with end=true or with the budget used up.
C9_StopsAtEndOrBudget ==
    /\ i <= CycleBudget
    /\ RunOver => (end \/ i = CycleBudget)

\* The result of the last call of uloop_check.
LastResult == results[Len(results)]

\* C10: the program ends with a nonzero exit status when the diagnostic re-run
\* returned a nonzero error count, and with status 0 when no swept
\* configuration had errors.
C10_ExitStatusReflectsErrors ==
    mpc = "exit" =>
        /\ (calls[Len(calls)].verbose /\ LastResult.value > 0) => exit_status # 0
        /\ Failed = {} => exit_status = 0

\* The program against either kind of imported module.
InitAll == SweepStart /\ uloop_common \in ({AnyCommon} \cup ContractCommon)

SpecAll == InitAll /\ [][Next]_vars

\* Two calls were made with the same configuration.
SameConfig(c1, c2) ==
    /\ c1.nb_iter = c2.nb_iter
    /\ c1.iter_stride = c2.iter_stride
    /\ c1.one_stride = c2.one_stride

\* C11: every call of uloop_check reaches its for loop with the registers
\* [0,0,0,0,nb_iter,iter_stride,one_stride], the FSM state (0,0,0,[0]), the
\* error counter 0 and a generator that has not run, whatever ran before; and
\* against a deterministic state machine and executor any two finished calls of
\* the same configuration returned the same count, the diagnostic re-run and
\* the failing run before it among them.
C11_CanonicalStartSameCount ==
    /\ (pc = "loop" /\ i = 0) =>
          /\ registers = <<0, 0, 0, 0, args.nb_iter, args.iter_stride, args.one_stride>>
          /\ state = <<0, 0, 0, <<0>>>>
          /\ err = 0
          /\ ~hl.bound
          /\ hl_loop.taken = 0 /\ ~hl_loop.done
          /\ <<hl_loop.a_idx, hl_loop.b_idx, hl_loop.c_idx, hl_loop.d_idx>> = <<0, 0, 0, 0>>
          /\ <<hl_loop.nb_iter, hl_loop.iter_stride, hl_loop.one_stride>>
                = <<args.nb_iter, args.iter_stride, args.one_stride>>
    /\ uloop_common.fsm = "contract" =>
          \A j, k \in 1..Len(results) :
              SameConfig(calls[j], calls[k]) => results[j] = results[k]

\* C11 witness: against the contract's state machine and the corrupted asset
\* the failing run and its verbose re-run both returned the same nonzero count.
C11_Witness ==
    /\ mpc = "exit"
    /\ uloop_common.fsm = "contract"
    /\ Len(results) = 3
    /\ calls[3].verbose /\ SameConfig(calls[2], calls[3])
    /\ results[2].value > 0
    /\ results[3] = results[2]

\* Positions 4..6 of the Python register file.
ConfigOf(regs) == <<regs[5], regs[6], regs[7]>>

\* C12: in every state of a run positions 4, 5 and 6 of the register file are
\* the run's nb_iter, iter_stride and one_stride, and so are those of the
\* candidate the executor computes from it, whatever the FSM state.
C12_ConfigRegistersFixed ==
    /\ Len(registers) = 7
    /\ ConfigOf(registers) = <<args.nb_iter, args.iter_stride, args.one_stride>>
    /\ \A st \in FsmStates :
          ConfigOf(uloop_execute(st, Code, registers)) = ConfigOf(registers)

\* C12 witness: two candidates were committed in a run whose strides differ.
C12_Witness ==
    /\ i = 2
    /\ execute
    /\ registers[1] = 2 * args.iter_stride
    /\ args.iter_stride = 2
    /\ args.one_stride = 1
    /\ registers[3] = 2

\* The smaller of two numbers.
Min(x, y) == IF x <= y THEN x ELSE y

\* The iteration index of the FSM state.
IterationIndex == state[4][1]

\* The last cycle issued was a settle point.
AtSettlePoint == i >= 1 /\ ~busy /\ pc \in {"loop", "summary", "raised"}

Accumulators == SubSeq(registers, 1, 4)

\* C14: with the asset as shipped, at every non-busy cycle the committed
\* accumulators are (k*iter_stride, k*iter_stride, k*one_stride, k*one_stride)
\* for the logical iteration index k of that settle point, and that tuple is
\* the reference value ha..hd the driver compares against at that cycle.
C14_SettledAccumulatorsClosedForm ==
    (AtSettlePoint /\ ~uloop_common.swapped) =>
        /\ Accumulators = Closed(IterationIndex, args.iter_stride, args.one_stride)
        /\ hl.bound
        /\ hl.v = Accumulators

\* C15: with the executor's stride application swapped, the sweep's first call
\* (16,1,1) returns zero errors, its second call (16,16,1) returns a nonzero
\* count, and the sweep stops there: after the verbose re-run the program ends
\* without any call with iter_stride=32.
C15_SwappedStridesCaughtAtSixteen ==
    uloop_common.swapped =>
        /\ Len(results) >= 1 =>
              /\ <<calls[1].nb_iter, calls[1].iter_stride, calls[1].one_stride>>
                    = <<16, 1, 1>>
              /\ results[1] = [kind |-> "count", value |-> 0]
        /\ Len(results) >= 2 =>
              /\ <<calls[2].nb_iter, calls[2].iter_stride, calls[2].one_stride>>
                    = <<16, 16, 1>>
              /\ results[2].kind = "count" /\ results[2].value > 0
        /\ \A k \in 1..Len(calls) : calls[k].iter_stride # 32
        /\ Len(calls) <= 3
        /\ mpc = "exit" => Len(calls) = 3

\* C15 witness: the program ended after the re-run of (16,16,1), every settle
\* point of which was an error.
C15_Witness ==
    /\ uloop_common.swapped
    /\ mpc = "exit"
    /\ Len(calls) = 3
    /\ results[1].value = 0
    /\ results[2].value = 16
    /\ calls[3] = [nb_iter |-> 16, iter_stride |-> 16, one_stride |-> 1,
                   verbose |-> TRUE]

\* C16: the generator is advanced once in each non-busy cycle (until it has no
\* tuple left) and never in a busy cycle: after n non-busy cycles it has
\* yielded min(n, nb_iter-1) tuples and, for nb_iter >= 2 and n >= 1, ha..hd
\* are the min(n, nb_iter-1)-th tuple; a busy cycle leaves the generator, the
\* reference tuple and the error counter as they were.
C16_ReferenceInLockstep ==
    /\ [](/\ hl_loop.taken = Min(settled, args.nb_iter - 1)
          /\ (args.nb_iter >= 2 /\ settled >= 1) =>
                /\ hl.bound
                /\ hl.v = Closed(Min(settled, args.nb_iter - 1),
                                 args.iter_stride, args.one_stride))
    /\ [][CycleStep =>
            /\ busy' => (hl_loop' = hl_loop /\ hl' = hl /\ hidx' = hidx /\ err' = err)
            /\ ~busy' => /\ settled' = settled + 1
                         /\ hl_loop'.taken = Min(hl_loop.taken + 1, args.nb_iter - 1)]_vars

\* C16 witness: four cycles of a run of nb_iter=3, two of them busy, left the
\* reference at the second tuple.
C16_Witness ==
    /\ args.nb_iter = 3
    /\ args.iter_stride = 2
    /\ i = 4
    /\ settled = 2
    /\ busy
    /\ hl.v = <<4, 4, 2 * args.one_stride, 2 * args.one_stride>>

\* C17: the cycle in which the state machine returns end=true still commits
\* the candidate when execute is true, still pulls and compares when busy is
\* false, counting a mismatch, and only then leaves the loop.
C17_EndCheckedLast ==
    [][(CycleStep /\ end') =>
          /\ execute' => registers' = uloop_execute(state, Code, registers)
          /\ ~busy' => hl_loop' = GenNext(hl_loop).frame
          /\ (~busy' /\ hl'.bound) =>
                err' = IF SubSeq(registers', 1, 4) # hl'.v THEN err + 1 ELSE err
          /\ pc' # "loop"]_vars

\* C17 witness: the second cycle returned end=true, committed a candidate that
\* differs from the first reference tuple, and the run returned that one error.
C17_Witness ==
    /\ pc = "returned"
    /\ i = 2
    /\ end /\ execute /\ ~busy
    /\ settled = 1
    /\ args.iter_stride = 2
    /\ registers[1] = 1
    /\ ret = [kind |-> "count", value |-> 1]

\* C18: what a cycle commits under this cycle's execute flag is the candidate
\* computed from the FSM state and the registers of before the cycle, not from
\* the state this cycle's step returns; and under this cycle's busy flag the
\* comparison reads the register file as it is after this cycle's commit.
C18_CandidateFromPreviousState ==
    [][CycleStep =>
          /\ execute' =>
                /\ registers' = uloop_execute(state, Code, registers)
                /\ state'[1] # state[1] =>
                      registers' # uloop_execute(state', Code, registers)
          /\ (~busy' /\ pc' # "raised") =>
                (err' = err + 1 <=> SubSeq(registers', 1, 4) # hl'.v)
          /\ (~busy' /\ pc' # "raised" /\ SubSeq(registers', 1, 4) = hl'.v) =>
                err' = err]_vars

\* C18 witness: the first cycle committed the stride update addressed by the
\* initial FSM state although its step returned a state that addresses the
\* other instruction, and the comparison found the committed registers equal
\* to the first reference tuple.
C18_Witness ==
    /\ i = 1
    /\ execute /\ ~busy
    /\ state[1] = 1
    /\ args.iter_stride = 2
    /\ registers[1] = 2
    /\ hl.v = <<2, 2, args.one_stride, args.one_stride>>
    /\ err = 0

\* C19: in a run with nb_iter >= 2 the error counter never goes down and goes
\* up at every non-busy cycle, the j-th of the run, whose committed
\* accumulators are not (m*iter_stride, m*iter_stride, m*one_stride,
\* m*one_stride) for m = min(j, nb_iter-1), so that only a run without such a
\* cycle returns zero; with a nonzero stride a non-busy cycle at all-zero
\* accumulators is such a cycle.
C19_ZeroErrorsOnlyIfShiftedClosedForm ==
    /\ [](pc = "returned" => ret = [kind |-> "count", value |-> err])
    /\ [][(CycleStep /\ args.nb_iter >= 2) =>
            /\ err' >= err
            /\ (/\ ~busy'
                /\ SubSeq(registers', 1, 4) #
                      Closed(Min(settled', args.nb_iter - 1),
                             args.iter_stride, args.one_stride)) => err' = err + 1
            /\ (/\ ~busy'
                /\ SubSeq(registers', 1, 4) = <<0, 0, 0, 0>>
                /\ (args.iter_stride # 0 \/ args.one_stride # 0)) => err' = err + 1]_vars

\* C19 witness: the first cycle was not busy and committed nothing, and with
\* one_stride=1 the all-zero accumulators were counted as an error.
C19_Witness ==
    /\ args.nb_iter = 2
    /\ args.iter_stride = 0
    /\ args.one_stride = 1
    /\ i = 1
    /\ ~busy /\ ~execute
    /\ SubSeq(registers, 1, 4) = <<0, 0, 0, 0>>
    /\ err = 1

\* uloop_check entered either way: called directly with a configuration of the
\* bounded sets, or by the sweep with its nine configurations.
InitEvery == Init \/ InitRun

SpecEvery == InitEvery /\ [][Next]_vars

\* C20: in a call with nb_iter >= 2, the nine of the sweep among them, the
\* first non-busy cycle binds ha..hd to a tuple of the generator, so that no
\* comparison reads them unassigned and the call never ends in
\* UnboundLocalError.
C20_ReferenceBoundBeforeRead ==
    args.nb_iter >= 2 =>
        /\ settled >= 1 => (hl.bound /\ hl_loop.taken >= 1)
        /\ pc # "raised"
        /\ ret.kind # "UnboundLocalError"
        /\ \A k \in 1..Len(results) : results[k].kind = "count"

\* C20 witness: the first cycle of a call with nb_iter=2 was not busy and
\* pulled the generator's only tuple.
C20_Witness ==
    /\ args.nb_iter = 2
    /\ args.iter_stride = 1
    /\ i = 1
    /\ settled = 1
    /\ hl = [bound |-> TRUE, v |-> <<1, 1, args.one_stride, args.one_stride>>]
    /\ pc = "loop"

====
